---- MODULE Spec2Model ----
(***************************************************************************)
(* Model of the ranking-and-evaluation pipeline of                         *)
(* clean_text_and_evaluate_BM25.py: bm25_feature, the per-query ranking,   *)
(* mean_precision and mean_ndcg, run in script order on one validation     *)
(* table.                                                                  *)
(*                                                                         *)
(* A row of the table is identified by its position in the table as it is  *)
(* when bm25_feature runs; that position stands for the row's pandas index *)
(* label, which is unique and survives filtering and sorting.              *)
(*                                                                         *)
(* Floating point values are kept in fixed point: BM25 scores in units of  *)
(* 1/1000, gains, DCG and IDCG in units of 1/100000, NDCG values in units *)
(* of 1/1000 and precisions in units of 1/1000000.                         *)
(***************************************************************************)
EXTENDS Integers, Sequences, FiniteSets, TLC

VARIABLES
    validation_data_sample, \* the table: sequence of rows [qid, passage, relevancy]
    pc,                     \* position in the script
    qi,                     \* bm25_feature: number of qids already processed
    corpus,                 \* bm25_feature: corpus of the last processed qid
    bm25_scores,            \* bm25_feature: scores concatenated so far
    bm25,                   \* column 'bm25' (<<>> before it is assigned)
    rank,                   \* column 'rank' (<<>> before it is assigned)
    precision_per_qid,      \* mean_precision: per-query precision
    retrieved,              \* mean_precision: per-query number of retrieved rows
    mean_precision_bm25,    \* result of mean_precision
    relevant_rows,          \* mean_ndcg: relevant rows in iteration order
    IDCG, DCG, NDCG,        \* mean_ndcg: the three lists
    done_qid, d, index, counter, \* mean_ndcg: loop state
    mean_ndcg_bm25          \* result of mean_ndcg

vars == <<validation_data_sample, pc, qi, corpus, bm25_scores, bm25, rank,
          precision_per_qid, retrieved, mean_precision_bm25, relevant_rows,
          IDCG, DCG, NDCG, done_qid, d, index, counter, mean_ndcg_bm25>>

----------------------------------------------------------------------------
(* Bounds of the model *)

\* longest table explored exhaustively
MaxRows == 3
\* number of distinct query ids
NumQueries == 2
\* rows of the leading block of a long table (specification SpecLong)
PadRows == 100
\* longest variable tail appended to the leading block of a long table
MaxTail == 2

\* head(100) in mean_precision
Top == 100

Micro == 1000 * 1000

\* the vocabulary: tokens are numbered
Tokens == 1..2
\* cleaned passages: token lists, never empty
Passages == {<<1>>, <<1, 2, 2>>}
Qids == 1..NumQueries
Rows == [qid : Qids, passage : Passages, relevancy : {0, 1}]

\* cleaned query of a query id (the 'clean queries' column is a map of qid)
txt_q_val_dict(qid) ==
    IF qid % 3 = 1 THEN <<1>> ELSE IF qid % 3 = 2 THEN <<2>> ELSE <<1, 2>>

----------------------------------------------------------------------------
(* Arithmetic helpers *)

Min(a, b) == IF a < b THEN a ELSE b

\* sum of the entries lo..hi of a sequence, by halves
RECURSIVE SumRange(_, _, _)
SumRange(s, lo, hi) ==
    IF lo > hi THEN 0
    ELSE IF lo = hi THEN s[lo]
    ELSE LET mid == (lo + hi) \div 2
         IN SumRange(s, lo, mid) + SumRange(s, mid + 1, hi)

SumSeq(s) == SumRange(s, 1, Len(s))

\* a comprehension evaluated into a list
AsList(s) == SubSeq(s, 1, Len(s))

RECURSIVE SumFn(_, _)
SumFn(f, S) == IF S = {} THEN 0
               ELSE LET x == CHOOSE y \in S : TRUE IN f[x] + SumFn(f, S \ {x})

\* 1000 * ln(k + 0.5), k = 0, 1, ...
LnHalfTable ==
    <<
       -693, 405, 916, 1253, 1504, 1705, 1872, 2015, 2140, 2251,
       2351, 2442, 2526, 2603, 2674, 2741, 2803, 2862, 2918, 2970,
       3020, 3068, 3114, 3157, 3199, 3239, 3277, 3314, 3350, 3384,
       3418, 3450, 3481, 3512, 3541, 3570, 3597, 3624, 3651, 3676,
       3701, 3726, 3750, 3773, 3795, 3818, 3839, 3861, 3882, 3902,
       3922, 3942, 3961, 3980, 3998, 4016, 4034, 4052, 4069, 4086,
       4103, 4119, 4135, 4151, 4167, 4182, 4197, 4212, 4227, 4241,
       4256, 4270, 4284, 4297, 4311, 4324, 4337, 4350, 4363, 4376,
       4388, 4401, 4413, 4425, 4437, 4449, 4460, 4472, 4483, 4494,
       4505, 4516, 4527, 4538, 4549, 4559, 4570, 4580, 4590, 4600,
       4610, 4620, 4630, 4640, 4649, 4659, 4668, 4677, 4687, 4696,
       4705, 4714
    >>
LnHalf(k) == LnHalfTable[k + 1]

\* 100000 / log2(p), p = 2, 3, ...
InvLog2Table ==
    <<
       100000, 63093, 50000, 43068, 38685, 35621, 33333, 31546, 30103, 28906,
       27894, 27024, 26265, 25596, 25000, 24465, 23981, 23541, 23138, 22767,
       22424, 22106, 21810, 21534, 21275, 21031, 20801, 20585, 20380, 20185,
       20000, 19824, 19656, 19496, 19343, 19196, 19055, 18920, 18790, 18665,
       18545, 18429, 18317, 18209, 18104, 18003, 17905, 17810, 17718, 17629,
       17543, 17458, 17377, 17297, 17220, 17144, 17071, 16999, 16929, 16861,
       16795, 16730, 16667, 16605, 16544, 16485, 16427, 16371, 16315, 16261,
       16208, 16156, 16104, 16054, 16005, 15957, 15910, 15863, 15818, 15773,
       15729, 15686, 15644, 15602, 15561, 15521, 15481, 15442, 15404, 15366,
       15329, 15292, 15256, 15221, 15186, 15152, 15118, 15084, 15051, 15019,
       14987, 14956, 14924, 14894, 14863, 14834, 14804, 14775, 14746, 14718,
       14690, 14662
    >>
\* 1/np.log2(p)
InvLog2(p) == InvLog2Table[p - 1]

----------------------------------------------------------------------------
(* validation_qid: the distinct qids of the table in order of first        *)
(* appearance (Series.unique)                                              *)

RECURSIVE Unique(_)
Unique(s) ==
    IF Len(s) <= 1 THEN s
    ELSE LET mid == Len(s) \div 2
             l == Unique(SubSeq(s, 1, mid))
             r == Unique(SubSeq(s, mid + 1, Len(s)))
         IN l \o SelectSeq(r, LAMBDA x : \A k \in DOMAIN l : l[k] # x)

QidColumn(df) == [i \in DOMAIN df |-> df[i].qid]

validation_qid == Unique(QidColumn(validation_data_sample))

----------------------------------------------------------------------------
(* BM25Okapi(corpus).get_scores(query), k1 = 1.5, b = 0.75, epsilon = 0.25 *)

TermFreq(doc, t) == Cardinality({j \in DOMAIN doc : doc[j] = t})

\* nd: number of documents containing the term
DocFreq(crp, t) == Cardinality({k \in DOMAIN crp : TermFreq(crp[k], t) > 0})

\* the idf table of _calc_idf, by token: log(N - nd + 0.5) - log(nd + 0.5) for
\* the terms of the corpus, negative values replaced by epsilon * average_idf;
\* 0 stands for a term that is not in the table
IdfTable(crp) ==
    LET nd == AsList([t \in Tokens |-> DocFreq(crp, t)])
        words == {t \in Tokens : nd[t] > 0}
        raw == AsList([t \in Tokens |->
                   IF nd[t] > 0 THEN LnHalf(Len(crp) - nd[t]) - LnHalf(nd[t]) ELSE 0])
        average_idf == SumFn(raw, words) \div Cardinality(words)
        eps == average_idf \div 4
    IN AsList([t \in Tokens |-> IF nd[t] = 0 THEN 0
                                ELSE IF raw[t] < 0 THEN eps ELSE raw[t]])

\* one score per corpus entry, in corpus order
\*   idf * tf * (k1 + 1) / (tf + k1 * (1 - b + b * len / avgdl)),  avgdl = total / N
\* = idf * 20 * tf * total / (8 * tf * total + 3 * total + 9 * len * N)
GetScores(query, crp) ==
    LET N == Len(crp)
        idf == IdfTable(crp)
        total == SumSeq([k \in DOMAIN crp |-> Len(crp[k])])
        term(k, t) == LET tf == TermFreq(crp[k], t)
                      IN (idf[t] * 20 * tf * total)
                           \div (8 * tf * total + 3 * total + 9 * Len(crp[k]) * N)
    IN AsList([k \in DOMAIN crp |-> SumSeq([j \in DOMAIN query |-> term(k, query[j])])])

----------------------------------------------------------------------------
(* bm25_feature *)

\* no filter on qid: every row of the table is a candidate
DocsOfWholeTable(clean_df, qid) == clean_df

\* clean_df[clean_df["qid"]==qid].reset_index(drop=True)
DocsOf(clean_df, qid) == SelectSeq(clean_df, LAMBDA row : row.qid = qid)

\* corpus = [passage for passage in docs["clean passages"]]
CorpusOf(clean_df, qid) ==
    LET docs == DocsOf(clean_df, qid) IN [k \in DOMAIN docs |-> docs[k].passage]

\* query = docs["clean queries"][0]
QueryOf(clean_df, qid) == txt_q_val_dict(DocsOf(clean_df, qid)[1].qid)

\* bm25 = BM25Okapi(corpus); bm25.get_scores(query)
ScoreBlock(clean_df, qid) ==
    GetScores(QueryOf(clean_df, qid), CorpusOf(clean_df, qid))

\* one iteration of the loop over qids
Bm25FeatureIter ==
    /\ pc = "bm25_feature"
    /\ qi < Len(validation_qid)
    /\ corpus' = CorpusOf(validation_data_sample, validation_qid[qi + 1])
    /\ bm25_scores' =
          bm25_scores \o ScoreBlock(validation_data_sample, validation_qid[qi + 1])
    /\ qi' = qi + 1
    /\ UNCHANGED <<validation_data_sample, pc, bm25, rank, precision_per_qid,
                   retrieved, mean_precision_bm25, relevant_rows, IDCG, DCG,
                   NDCG, done_qid, d, index, counter, mean_ndcg_bm25>>

\* return bm25_scores; validation_data_sample['bm25'] = ... (positional)
Bm25FeatureReturn ==
    /\ pc = "bm25_feature"
    /\ qi = Len(validation_qid)
    /\ bm25' = bm25_scores
    /\ pc' = "rank"
    /\ UNCHANGED <<validation_data_sample, qi, corpus, bm25_scores, rank,
                   precision_per_qid, retrieved, mean_precision_bm25,
                   relevant_rows, IDCG, DCG, NDCG, done_qid, d, index, counter,
                   mean_ndcg_bm25>>

----------------------------------------------------------------------------
(* groupby('qid')['bm25'].rank(ascending=False, method='first').astype(int) *)

\* positions of the rows of one query, in table order
GroupOf(df, qid) == SelectSeq([i \in DOMAIN df |-> i], LAMBDA i : df[i].qid = qid)

\* stable merge of two runs sorted by descending score, every row of a
\* preceding every row of b in the table: a row of a goes behind the rows of b
\* with a greater score, a row of b behind the rows of a with a score not smaller
MergeDesc(a, b, sc) ==
    LET pa == AsList([i \in DOMAIN a |->
                  i + Cardinality({j \in DOMAIN b : sc[b[j]] > sc[a[i]]})])
        pb == AsList([j \in DOMAIN b |->
                  j + Cardinality({i \in DOMAIN a : sc[a[i]] >= sc[b[j]]})])
    IN AsList([p \in 1..(Len(a) + Len(b)) |->
                  IF \E i \in DOMAIN a : pa[i] = p
                  THEN a[CHOOSE i \in DOMAIN a : pa[i] = p]
                  ELSE b[CHOOSE j \in DOMAIN b : pb[j] = p]])

\* the rows of a group by descending score, first seen first among equals
RECURSIVE SortDesc(_, _)
SortDesc(grp, sc) ==
    IF Len(grp) <= 1 THEN grp
    ELSE LET mid == Len(grp) \div 2
         IN MergeDesc(SortDesc(SubSeq(grp, 1, mid), sc),
                      SortDesc(SubSeq(grp, mid + 1, Len(grp)), sc), sc)

PositionIn(s, x) == CHOOSE k \in DOMAIN s : s[k] = x

\* method='min': equal scores share the smallest rank of their run
RankMethodMin(grp, sc, i) ==
    1 + Cardinality({k \in DOMAIN grp : sc[grp[k]] > sc[i]})

\* ascending=True (the default of rank): smallest score first
RankAscending(grp, sc, i) ==
    1 + Cardinality({k \in DOMAIN grp :
                         \/ sc[grp[k]] < sc[i]
                         \/ sc[grp[k]] = sc[i] /\ grp[k] < i})

\* method='first', ascending=False: the rank of row i is its place among the
\* rows of its group sorted by descending score
RankFirst(grp, sc, i) == PositionIn(SortDesc(grp, sc), i)

\* the 'rank' column: every row is ranked within the group of its qid
RankColumn(df, sc) ==
    [i \in DOMAIN df |-> RankFirst(GroupOf(df, df[i].qid), sc, i)]

RankValidationData ==
    /\ pc = "rank"
    /\ rank' = RankColumn(validation_data_sample, bm25)
    /\ pc' = "mean_precision"
    /\ UNCHANGED <<validation_data_sample, qi, corpus, bm25_scores, bm25,
                   precision_per_qid, retrieved, mean_precision_bm25,
                   relevant_rows, IDCG, DCG, NDCG, done_qid, d, index, counter,
                   mean_ndcg_bm25>>

----------------------------------------------------------------------------
(* mean_precision *)

\* df[df['qid']==qid]['rank'].head(100).index
Top100(df, qid) ==
    LET g == GroupOf(df, qid) IN {g[k] : k \in 1..Min(Top, Len(g))}

\* df[(df['relevancy']==1) & (df.index.isin(top100))].shape[0]
OverlapCount(df, top100) ==
    Cardinality({i \in DOMAIN df : df[i].relevancy = 1 /\ i \in top100})

\* np.mean of a list; "nan" for the empty list
Mean(l) == IF l = <<>> THEN "nan" ELSE SumSeq(l) \div Len(l)

MeanPrecision ==
    /\ pc = "mean_precision"
    /\ precision_per_qid' =
          [k \in DOMAIN validation_qid |->
              LET top100 == Top100(validation_data_sample, validation_qid[k])
              IN (OverlapCount(validation_data_sample, top100) * Micro)
                    \div Cardinality(top100)]
    /\ retrieved' =
          [k \in DOMAIN validation_qid |->
              Cardinality(Top100(validation_data_sample, validation_qid[k]))]
    /\ mean_precision_bm25' = Mean(precision_per_qid')
    /\ pc' = "mean_ndcg"
    /\ UNCHANGED <<validation_data_sample, qi, corpus, bm25_scores, bm25, rank,
                   relevant_rows, IDCG, DCG, NDCG, done_qid, d, index, counter,
                   mean_ndcg_bm25>>

----------------------------------------------------------------------------
(* mean_ndcg *)

RECURSIVE Perms(_)
Perms(S) == IF S = {} THEN {<<>>}
            ELSE UNION {{<<x>> \o p : p \in Perms(S \ {x})} : x \in S}

\* df.sort_values(by='qid') followed by df[df['relevancy']==1]: the relevant
\* rows by ascending qid.  The default sort is not stable, so rows of one qid
\* may come out in any order.
SortedRelevant(df) ==
    {s \in Perms({i \in DOMAIN df : df[i].relevancy = 1}) :
        \A a, b \in DOMAIN s : a < b => df[s[a]].qid <= df[s[b]].qid}

\* sum([1/np.log2(i + 1) for i in range(1, element + 1)])
IdealDCG(element) == SumSeq([i \in 1..element |-> InvLog2(i + 1)])

\* d/IDCG[index] in units of 1/1000
Ratio(num, den) == (num \div den) * 1000 + ((num % den) * 1000) \div den

\* the gain added to d for a row of rank i
Gain(i) == InvLog2(i + 2)

\* the sort, the IDCG list and the initialisation of the loop state
MeanNdcgStart ==
    /\ pc = "mean_ndcg"
    /\ relevant_rows' \in SortedRelevant(validation_data_sample)
    /\ IDCG' = [k \in DOMAIN retrieved |-> IdealDCG(retrieved[k])]
    /\ DCG' = <<>>
    /\ NDCG' = <<>>
    /\ done_qid' = <<>>
    /\ d' = 0
    /\ index' = 0
    /\ counter' = 0
    /\ pc' = "ndcg_loop"
    /\ UNCHANGED <<validation_data_sample, qi, corpus, bm25_scores, bm25, rank,
                   precision_per_qid, retrieved, mean_precision_bm25,
                   mean_ndcg_bm25>>

\* the row the loop is about to visit
NextRow == validation_data_sample[relevant_rows[counter + 1]]

InDone(qid) == \E k \in DOMAIN done_qid : done_qid[k] = qid

\* loop body, branch "row['qid'] not in done_qid and counter>0"
MeanNdcgNewQuery ==
    /\ pc = "ndcg_loop"
    /\ counter < Len(relevant_rows)
    /\ ~InDone(NextRow.qid) /\ counter > 0
    /\ done_qid' = Append(done_qid, NextRow.qid)
    /\ DCG' = Append(DCG, d)
    /\ NDCG' = Append(NDCG, Ratio(d, IDCG[index + 1]))
    /\ index' = index + 1
    /\ d' = Gain(rank[relevant_rows[counter + 1]])
    /\ counter' = counter + 1
    /\ UNCHANGED <<validation_data_sample, pc, qi, corpus, bm25_scores, bm25,
                   rank, precision_per_qid, retrieved, mean_precision_bm25,
                   relevant_rows, IDCG, mean_ndcg_bm25>>

\* loop body, else branch
MeanNdcgSameQuery ==
    /\ pc = "ndcg_loop"
    /\ counter < Len(relevant_rows)
    /\ ~(~InDone(NextRow.qid) /\ counter > 0)
    /\ d' = d + Gain(rank[relevant_rows[counter + 1]])
    /\ counter' = counter + 1
    /\ UNCHANGED <<validation_data_sample, pc, qi, corpus, bm25_scores, bm25,
                   rank, precision_per_qid, retrieved, mean_precision_bm25,
                   relevant_rows, IDCG, DCG, NDCG, done_qid, index,
                   mean_ndcg_bm25>>

\* return np.mean(NDCG)
MeanNdcgReturn ==
    /\ pc = "ndcg_loop"
    /\ counter = Len(relevant_rows)
    /\ mean_ndcg_bm25' = Mean(NDCG)
    /\ pc' = "done"
    /\ UNCHANGED <<validation_data_sample, qi, corpus, bm25_scores, bm25, rank,
                   precision_per_qid, retrieved, mean_precision_bm25,
                   relevant_rows, IDCG, DCG, NDCG, done_qid, d, index, counter>>

----------------------------------------------------------------------------
(* Specifications *)

RECURSIVE SeqsOfLen(_, _)
SeqsOfLen(S, n) ==
    IF n = 0 THEN {<<>>}
    ELSE {Append(s, x) : s \in SeqsOfLen(S, n - 1), x \in S}

SeqsUpTo(S, n) == UNION {SeqsOfLen(S, k) : k \in 1..n}

InitRest ==
    /\ pc = "bm25_feature"
    /\ qi = 0
    /\ corpus = <<>>
    /\ bm25_scores = <<>>
    /\ bm25 = <<>>
    /\ rank = <<>>
    /\ precision_per_qid = <<>>
    /\ retrieved = <<>>
    /\ mean_precision_bm25 = "none"
    /\ relevant_rows = <<>>
    /\ IDCG = <<>>
    /\ DCG = <<>>
    /\ NDCG = <<>>
    /\ done_qid = <<>>
    /\ d = 0
    /\ index = 0
    /\ counter = 0
    /\ mean_ndcg_bm25 = "none"

\* every table of 1..MaxRows rows
Init ==
    /\ validation_data_sample \in SeqsUpTo(Rows, MaxRows)
    /\ InitRest

\* long tables: PadRows equal rows without a relevance label of 1, followed
\* by 1..MaxTail arbitrary rows
InitLong ==
    /\ \E r \in {x \in Rows : x.relevancy = 0} : \E tail \in SeqsUpTo(Rows, MaxTail) :
          validation_data_sample = [k \in 1..PadRows |-> r] \o tail
    /\ InitRest

Next ==
    \/ Bm25FeatureIter
    \/ Bm25FeatureReturn
    \/ RankValidationData
    \/ MeanPrecision
    \/ MeanNdcgStart
    \/ MeanNdcgNewQuery
    \/ MeanNdcgSameQuery
    \/ MeanNdcgReturn

Spec == Init /\ [][Next]_vars

SpecLong == InitLong /\ [][Next]_vars

----------------------------------------------------------------------------
(* Vocabulary of the properties *)

Table == validation_data_sample

\* the rows of query q
RowsOf(q) == {i \in DOMAIN Table : Table[i].qid = q}

QueriesOfTable == {Table[i].qid : i \in DOMAIN Table}

\* the k-th row of query q in table order
NthRowOf(q, k) ==
    CHOOSE i \in RowsOf(q) : Cardinality({j \in RowsOf(q) : j < i}) = k - 1

\* the place of row i among the rows of its own query
PlaceOf(i) == 1 + Cardinality({j \in RowsOf(Table[i].qid) : j < i})

\* the passages of query q, in table order
OwnCorpus(q) == [k \in 1..Cardinality(RowsOf(q)) |-> Table[NthRowOf(q, k)].passage]

\* the scores of query q's passages against query q, within q's candidate set
OwnScores(q) == GetScores(txt_q_val_dict(q), OwnCorpus(q))

\* number of rows of the queries processed before the k-th one
BlockOffset(k) ==
    SumSeq([j \in 1..(k - 1) |-> Cardinality(RowsOf(validation_qid[j]))])

\* the block of scores bm25_feature appended for the k-th query
BlockOf(k) ==
    SubSeq(bm25_scores, BlockOffset(k) + 1,
           BlockOffset(k) + Cardinality(RowsOf(validation_qid[k])))

RemoveAt(s, i) == SubSeq(s, 1, i - 1) \o SubSeq(s, i + 1, Len(s))

InsertAt(s, i, x) == SubSeq(s, 1, i - 1) \o <<x>> \o SubSeq(s, i, Len(s))

\* the tables that differ from the table in one row of a query other than q:
\* a row removed, a row replaced (also by a row of a third query), a row added
VariantsFor(q) ==
    LET others == {r \in Rows : r.qid # q}
    IN  {RemoveAt(Table, i) : i \in {j \in DOMAIN Table : Table[j].qid # q}}
        \cup {[Table EXCEPT ![i] = r] :
                 i \in {j \in DOMAIN Table : Table[j].qid # q}, r \in others}
        \cup {InsertAt(Table, i, r) : i \in 1..(Len(Table) + 1), r \in others}

\* K of query q: min(100, candidate-set size)
KOf(q) == Min(Top, Cardinality(RowsOf(q)))

RelevantOf(q) == {i \in RowsOf(q) : Table[i].relevancy = 1}

QueriesWithRelevant == {q \in QueriesOfTable : RelevantOf(q) # {}}

\* the ranking of q is perfect: its relevant rows hold exactly the ranks 1..R
Perfect(q) ==
    /\ RelevantOf(q) # {}
    /\ {rank[i] : i \in RelevantOf(q)} = 1..Cardinality(RelevantOf(q))

\* the loop of mean_ndcg is about to append d to DCG and d/IDCG[index] to NDCG
AppendIsNext ==
    /\ pc = "ndcg_loop"
    /\ counter > 0
    /\ counter < Len(relevant_rows)
    /\ ~InDone(NextRow.qid)

\* the query of the row visited last, whose gains d holds
LastQuery == Table[relevant_rows[counter]].qid

----------------------------------------------------------------------------
(* Claims *)

\* C1: once the 'bm25' column is assigned, the score stored on every row is the
\* score computed for that row's own passage against that row's own query
\* within that query's candidate set, whatever the row order.
C1_ScoreOnOwnRow ==
    bm25 # <<>> =>
        \A i \in DOMAIN Table : bm25[i] = OwnScores(Table[i].qid)[PlaceOf(i)]

\* C2: for every query, mean_precision counts the relevant rows among the K
\* top-ranked rows (rank in 1..K, K = min(100, N)) and divides by K.
C2_PrecisionOverTopRanked ==
    precision_per_qid # <<>> =>
        \A k \in DOMAIN validation_qid :
            LET q == validation_qid[k]
                hits == Cardinality({i \in RelevantOf(q) : rank[i] <= KOf(q)})
            IN /\ retrieved[k] = KOf(q)
               /\ precision_per_qid[k] = (hits * Micro) \div KOf(q)

\* C3: the ranks of the rows of every query are exactly 1..N, N the number of
\* rows of the query: no gap, no duplicate, also among equal scores.
C3_RanksArePermutation ==
    rank # <<>> =>
        \A q \in QueriesOfTable :
            /\ {rank[i] : i \in RowsOf(q)} = 1..Cardinality(RowsOf(q))
            /\ \A a, b \in RowsOf(q) : rank[a] = rank[b] => a = b

\* a query has two rows with the same score and has been ranked
C3_Witness ==
    /\ rank # <<>>
    /\ \E a, b \in DOMAIN Table :
          a # b /\ Table[a].qid = Table[b].qid /\ bm25[a] = bm25[b]

\* C4: within a query, rank(a) < rank(b) iff score(a) > score(b), or the scores
\* are equal and a precedes b in the table; rank 1 is held by a maximal score.
C4_DescendingFirstSeen ==
    rank # <<>> =>
        \A a, b \in DOMAIN Table :
            (a # b /\ Table[a].qid = Table[b].qid) =>
                /\ rank[a] < rank[b] <=>
                      (bm25[a] > bm25[b] \/ (bm25[a] = bm25[b] /\ a < b))
                /\ rank[a] = 1 => bm25[a] >= bm25[b]

\* a ranked query has both a pair of equal scores and a pair of different ones,
\* the greater score on the later row
C4_Witness ==
    /\ rank # <<>>
    /\ \E a, b, c \in DOMAIN Table :
          /\ a < b /\ Table[a].qid = Table[b].qid /\ Table[b].qid = Table[c].qid
          /\ bm25[a] = bm25[b]
          /\ a < c /\ bm25[a] < bm25[c]

\* C5: a relevant row of rank r adds 1/log2(r + 1) to the DCG of its query (so
\* rank 1 adds exactly 1); stated for the first row the loop visits.
C5_GainOfRank ==
    (pc = "ndcg_loop" /\ counter = 1) =>
        d = InvLog2(rank[relevant_rows[1]] + 1)

\* C6: the IDCG a query's DCG is divided by is that query's own IDCG, the sum of
\* 1/log2(i + 1) for i = 1..K with K the query's own retrieved count.
C6_OwnIdcg ==
    AppendIsNext =>
        IDCG[index + 1] = SumSeq([i \in 1..KOf(LastQuery) |-> InvLog2(i + 1)])

\* C7: mean_ndcg averages one value per query that has a relevant row, the last
\* one in qid order included, and is defined when there is such a query.
C7_EveryRelevantQueryCounts ==
    pc = "done" =>
        /\ Len(NDCG) = Cardinality(QueriesWithRelevant)
        /\ QueriesWithRelevant # {} => mean_ndcg_bm25 # "nan"

\* C8: the NDCG value computed for a query whose relevant rows hold exactly the
\* ranks 1..R is 1.0.
C8_PerfectRankingIsOne ==
    (AppendIsNext /\ Perfect(LastQuery)) => Ratio(d, IDCG[index + 1]) = 1000

\* C9: the corpus of every processed query id is exactly the rows of that qid in
\* table order, its block of scores is computed from that corpus alone, and the
\* block is the same for every table that differs in a row of another query
\* (the last is checked in the state right after the query id is processed).
C9_OwnCandidateSetOnly ==
    (pc = "bm25_feature" /\ qi >= 1) =>
        /\ corpus = OwnCorpus(validation_qid[qi])
        /\ \A k \in 1..qi : BlockOf(k) = OwnScores(validation_qid[k])
        /\ \A t \in VariantsFor(validation_qid[qi]) :
              ScoreBlock(t, validation_qid[qi]) = BlockOf(qi)

\* two queries are processed, their rows interleaved in the table
C9_Witness ==
    /\ pc = "bm25_feature" /\ qi = 2
    /\ \E a, b, c \in DOMAIN Table :
          /\ a < b /\ b < c
          /\ Table[a].qid = Table[c].qid /\ Table[a].qid # Table[b].qid
          /\ Table[a].passage # Table[c].passage

\* C10: every value appended to DCG (and NDCG) is the gain summed over all
\* relevant rows of exactly one query, the first query iterated included.
C10_WholeQueryPerAppend ==
    AppendIsNext =>
        d = SumFn([i \in RelevantOf(LastQuery) |-> Gain(rank[i])],
                  RelevantOf(LastQuery))

====
